---- MODULE Spec2Model ----
(***************************************************************************)
(* Model of the 3D transform filter (source/filters/filter-transform.cpp): *)
(* the settings migration, the parameter update, the per-tick mesh rebuild *)
(* and the multi-pass render pipeline of transform_instance.               *)
(*                                                                         *)
(* Numbers.  A double held by the settings object is represented by the    *)
(* integer DoubleScale * value (so 1.5 is 3); an integer and a boolean     *)
(* (0/1) are held as they are.  Parsed parameters are exact rationals      *)
(* [n, d]; an angle is a rational multiple of pi.  A 64-bit version        *)
(* A.B.C.D is represented by its four 16-bit fields <<A, B, C, D>>.        *)
(***************************************************************************)
EXTENDS Integers, Sequences, FiniteSets, TLC

VARIABLES
    settings,         \* obs_data_t* settings: the keys with a user value -> that value
    mig,              \* history: the last migrate call
    params,           \* _camera_*, _position, _rotation, _scale, _shear, _rotation_order, _mipmap_enabled
    update_mesh,      \* _update_mesh
    updated,          \* history: update was called since the last mesh rebuild
    source_size,      \* _source_size
    mesh,             \* _vertex_buffer
    cache_rendered,   \* _cache_rendered
    mipmap_rendered,  \* _mipmap_rendered
    source_rendered,  \* _source_rendered
    cache_rt,         \* _cache_rt
    cache_texture,    \* _cache_texture
    mipmap_texture,   \* _mipmap_texture
    source_rt,        \* _source_rt
    source_texture,   \* _source_texture
    ev,               \* history: the last update / video_tick / video_render call,
                      \* the settings or host answers it got and what it did
    tickStats,        \* history: what the video_render calls since the last video_tick did
    mesh_camera       \* history: the camera mode the last mesh rebuild read

vars == <<settings, mig, params, update_mesh, updated, source_size, mesh,
          cache_rendered, mipmap_rendered, source_rendered, cache_rt,
          cache_texture, mipmap_texture, source_rt, source_texture, ev, tickStats,
          mesh_camera>>

instanceVars == <<params, update_mesh, updated, source_size, mesh,
                  cache_rendered, mipmap_rendered, source_rendered, cache_rt,
                  cache_texture, mipmap_texture, source_rt, source_texture, ev, tickStats,
          mesh_camera>>

----------------------------------------------------------------------------
(* Bounds of the model.                                                    *)

\* Largest number of keys holding a user value in an initial settings snapshot.
MaxUserKeys == 2

\* Largest number of video_render calls between two video_tick calls that
\* get as far as the transform pass (calls that give up earlier are not limited).
MaxRendersPerTick == 2

\* A double d is represented by the integer DoubleScale * d.
DoubleScale == 2

\* The cache sizing is computed for every native width and height in
\* 1..MaxSmallExtent, and for the extents of LargeExtents.
MaxSmallExtent == 12

----------------------------------------------------------------------------
(* Setting keys.                                                           *)

ST_KEY_CAMERA_MODE == "Camera.Mode"
ST_KEY_CAMERA_FIELDOFVIEW == "Camera.FieldOfView"
ST_KEY_POSITION_X == "Position.X"
ST_KEY_POSITION_Y == "Position.Y"
ST_KEY_POSITION_Z == "Position.Z"
ST_KEY_ROTATION_X == "Rotation.X"
ST_KEY_ROTATION_Y == "Rotation.Y"
ST_KEY_ROTATION_Z == "Rotation.Z"
ST_KEY_SCALE_X == "Scale.X"
ST_KEY_SCALE_Y == "Scale.Y"
ST_KEY_SHEAR_X == "Shear.X"
ST_KEY_SHEAR_Y == "Shear.Y"
ST_KEY_ROTATION_ORDER == "Rotation.Order"
ST_KEY_MIPMAPPING == "Mipmapping"

\* The 14 renames of migrate in the order of the code, each as the macro call
\* is written: <<TYPE, first name argument, second name argument>>.
RenameCalls ==
    << <<"int", ST_KEY_CAMERA_MODE, "Filter.Transform.Camera">>,
       <<"double", ST_KEY_CAMERA_FIELDOFVIEW, "Filter.Transform.Camera.FieldOfView">>,
       <<"double", ST_KEY_POSITION_X, "Filter.Transform.Position.X">>,
       <<"double", ST_KEY_POSITION_Y, "Filter.Transform.Position.Y">>,
       <<"double", ST_KEY_POSITION_Z, "Filter.Transform.Position.Z">>,
       <<"double", ST_KEY_ROTATION_X, "Filter.Transform.Rotation.X">>,
       <<"double", ST_KEY_ROTATION_Y, "Filter.Transform.Rotation.Y">>,
       <<"double", ST_KEY_ROTATION_Z, "Filter.Transform.Rotation.Z">>,
       <<"double", ST_KEY_SCALE_X, "Filter.Transform.Scale.X">>,
       <<"double", ST_KEY_SCALE_Y, "Filter.Transform.Scale.Y">>,
       <<"double", ST_KEY_SHEAR_X, "Filter.Transform.Shear.X">>,
       <<"double", ST_KEY_SHEAR_Y, "Filter.Transform.Shear.Y">>,
       <<"double", ST_KEY_ROTATION_ORDER, "Filter.Transform.Rotation.Order">>,
       <<"double", ST_KEY_MIPMAPPING, "Filter.Transform.Mipmapping">> >>

\* Names of the configuration table, and the 'Filter.Transform.*' names.
CurrentKeys == { RenameCalls[i][2] : i \in 1..Len(RenameCalls) }
LegacyKeys == { RenameCalls[i][3] : i \in 1..Len(RenameCalls) }
Keys == CurrentKeys \cup LegacyKeys

\* The legacy name that belongs to a current name.
LegacyOf(k) == LET i == CHOOSE j \in 1..Len(RenameCalls) : RenameCalls[j][2] = k
               IN RenameCalls[i][3]

----------------------------------------------------------------------------
(* The settings object (obs_data_t) as the code uses it.                   *)

\* What a key without a user value and without a default reads as.
Unset == [t |-> "unset", v |-> 0]
IntVal(i) == [t |-> "int", v |-> i]
DoubleVal(h) == [t |-> "double", v |-> h]
BoolVal(b) == [t |-> "bool", v |-> IF b THEN 1 ELSE 0]

\* Conversion double -> integer: truncation towards zero.
TruncToInt(h) == IF h >= 0 THEN h \div DoubleScale ELSE -((-h) \div DoubleScale)

obs_data_has_user_value(s, name) == name \in DOMAIN s

obs_data_unset_user_value(s, name) == [k \in DOMAIN s \ {name} |-> s[k]]

\* The user value of a key, Unset when it has none.
UserValue(s, name) == IF name \in DOMAIN s THEN s[name] ELSE Unset

\* A number item converts between int and double; any other item reads as 0.
NumberAsInt(x) ==
    CASE x.t = "int" -> x.v
      [] x.t = "double" -> TruncToInt(x.v)
      [] OTHER -> 0

NumberAsDouble(x) ==
    CASE x.t = "int" -> x.v * DoubleScale
      [] x.t = "double" -> x.v
      [] OTHER -> 0

ItemAsBool(x) == x.t = "bool" /\ x.v = 1

\* obs_data_get_<TYPE> of a key that has a user value, followed by
\* obs_data_set_<TYPE>: the value as it is stored under the other name.
GetAs(type, x) ==
    CASE type = "int" -> IntVal(NumberAsInt(x))
      [] type = "double" -> DoubleVal(NumberAsDouble(x))
      [] OTHER -> BoolVal(ItemAsBool(x))

obs_data_set(s, name, x) == [k \in DOMAIN s \cup {name} |-> IF k = name THEN x ELSE s[k]]

----------------------------------------------------------------------------
(* Versions.                                                               *)

\* STREAMFX_MAKE_VERSION and STREAMFX_MASK_UPDATE are defined in version.hpp,
\* outside this file.  The macro is taken as the documentation has it, one
\* version number A.B.C.D that gates the renames: a single value, its
\* fields 16 bits each from the most significant one.
STREAMFX_MAKE_VERSION(major, minor, patch, tweak) == <<major, minor, patch, tweak>>

\* version & STREAMFX_MASK_UPDATE: only A.B.C of A.B.C.D.
MaskUpdate(version) == <<version[1], version[2], version[3], 0>>

\* a < b on 64-bit versions, field by field from the most significant one.
VersionLess(a, b) ==
    \E i \in 1..4 : a[i] < b[i] /\ \A j \in 1..(i - 1) : a[j] = b[j]

----------------------------------------------------------------------------
(* transform_instance::migrate.                                            *)

COPY_UNSET(s, type, OLDNAME, NEWNAME) ==
    IF obs_data_has_user_value(s, OLDNAME)
    THEN obs_data_unset_user_value(
             obs_data_set(s, NEWNAME, GetAs(type, s[OLDNAME])), OLDNAME)
    ELSE s

COPY_IGNORE(s, type, OLDNAME, NEWNAME) ==
    IF obs_data_has_user_value(s, OLDNAME)
    THEN obs_data_set(s, NEWNAME, GetAs(type, s[OLDNAME]))
    ELSE s

SET_IF_UNSET(s, NAME, value) ==
    IF ~obs_data_has_user_value(s, NAME)
    THEN obs_data_set(s, NAME, value)
    ELSE s

\* The first n macro calls of the 0.11.0 block, applied in order.  Each call
\* passes the names to COPY_UNSET in the order they are written in the code.
RECURSIVE RenameAll(_, _)
RenameAll(s, n) ==
    IF n = 0 THEN s
    ELSE LET c == RenameCalls[n]
         IN COPY_UNSET(RenameAll(s, n - 1), c[1], c[2], c[3])

CameraModeOrthographic == 0
CameraModePerspective == 1

MigrateBelow_0_8(s) ==
    COPY_IGNORE(COPY_IGNORE(s, "double", ST_KEY_ROTATION_X, ST_KEY_ROTATION_X),
                "double", ST_KEY_ROTATION_Y, ST_KEY_ROTATION_Y)

MigrateBelow_0_11NoDefault(s) == RenameAll(s, Len(RenameCalls))

MigrateBelow_0_11(s) ==
    LET r == RenameAll(s, Len(RenameCalls))
    IN IF ~obs_data_has_user_value(r, ST_KEY_CAMERA_MODE)
       THEN SET_IF_UNSET(r, ST_KEY_CAMERA_MODE, IntVal(CameraModeOrthographic))
       ELSE r

migrate(s, version) ==
    LET v == MaskUpdate(version)
        s1 == IF VersionLess(v, STREAMFX_MAKE_VERSION(0, 8, 0, 0))
              THEN MigrateBelow_0_8(s) ELSE s
    IN IF VersionLess(v, STREAMFX_MAKE_VERSION(0, 11, 0, 0))
       THEN MigrateBelow_0_11(s1) ELSE s1

----------------------------------------------------------------------------
(* Exact rationals for the parsed parameters.                              *)

RECURSIVE GCD(_, _)
GCD(a, b) == IF b = 0 THEN a ELSE GCD(b, a % b)

Abs(a) == IF a < 0 THEN -a ELSE a

\* n / d in lowest terms, d > 0.
Rat(n, d) == LET g == GCD(Abs(n), Abs(d))
                 sgn == IF d < 0 THEN -1 ELSE 1
             IN [n |-> sgn * (n \div g), d |-> sgn * (d \div g)]

RatAdd(a, b) == Rat(a.n * b.d + b.n * a.d, a.d * b.d)
RatNeg(a) == [n |-> -a.n, d |-> a.d]
RatSub(a, b) == RatAdd(a, RatNeg(b))
RatMul(a, b) == Rat(a.n * b.n, a.d * b.d)
RatOne == [n |-> 1, d |-> 1]
RatZero == [n |-> 0, d |-> 1]

----------------------------------------------------------------------------
(* transform_factory::get_defaults2 and transform_instance::update.        *)

RotationOrderXYZ == 0
RotationOrderXZY == 1
RotationOrderYXZ == 2
RotationOrderYZX == 3
RotationOrderZXY == 4
RotationOrderZYX == 5

get_defaults2 ==
    [k \in Keys |->
        CASE k = ST_KEY_CAMERA_MODE -> IntVal(CameraModeOrthographic)
          [] k = ST_KEY_CAMERA_FIELDOFVIEW -> DoubleVal(90 * DoubleScale)
          [] k = ST_KEY_ROTATION_ORDER -> IntVal(RotationOrderZXY)
          [] k \in {ST_KEY_SCALE_X, ST_KEY_SCALE_Y} -> DoubleVal(100 * DoubleScale)
          [] k = ST_KEY_MIPMAPPING -> BoolVal(FALSE)
          [] k \in CurrentKeys -> DoubleVal(0)
          [] OTHER -> Unset]

\* The item a getter reads: the user value, else the default.
Item(s, name) == IF obs_data_has_user_value(s, name) THEN s[name] ELSE get_defaults2[name]

obs_data_get_int(s, name) == NumberAsInt(Item(s, name))
obs_data_get_double(s, name) == NumberAsDouble(Item(s, name))
obs_data_get_bool(s, name) == ItemAsBool(Item(s, name))

\* percent -> ratio (/ 100.0), degrees -> radians (/ 180.0 * S_PI, kept as a
\* multiple of pi), and the field of view as it is.
PercentToRatio(h) == Rat(h, DoubleScale * 100)
DegToRad(h) == Rat(h, DoubleScale * 180)
AsFloat(h) == Rat(h, DoubleScale)

RECURSIVE Pow2(_)
Pow2(e) == IF e = 0 THEN 1 ELSE 2 * Pow2(e - 1)

\* static_cast<uint32_t> of a 64-bit integer: the value modulo 2^32.  A
\* value in 0..2^31-1 is kept, which is every value TLC's integers can
\* hold after the cast.
ToUint32(v) == IF v \in 0..2147483647 THEN v ELSE v % Pow2(32)

ParseSettings(s) ==
    [camera_orthographic |-> obs_data_get_int(s, ST_KEY_CAMERA_MODE) = 0,
     camera_fov |-> AsFloat(obs_data_get_double(s, ST_KEY_CAMERA_FIELDOFVIEW)),
     position |-> <<PercentToRatio(obs_data_get_double(s, ST_KEY_POSITION_X)),
                    PercentToRatio(obs_data_get_double(s, ST_KEY_POSITION_Y)),
                    PercentToRatio(obs_data_get_double(s, ST_KEY_POSITION_Z))>>,
     scale |-> <<PercentToRatio(obs_data_get_double(s, ST_KEY_SCALE_X)),
                 PercentToRatio(obs_data_get_double(s, ST_KEY_SCALE_Y)),
                 RatOne>>,
     rotation_order |-> ToUint32(obs_data_get_int(s, ST_KEY_ROTATION_ORDER)),
     rotation |-> <<DegToRad(obs_data_get_double(s, ST_KEY_ROTATION_X)),
                    DegToRad(obs_data_get_double(s, ST_KEY_ROTATION_Y)),
                    DegToRad(obs_data_get_double(s, ST_KEY_ROTATION_Z))>>,
     shear |-> <<PercentToRatio(obs_data_get_double(s, ST_KEY_SHEAR_X)),
                 PercentToRatio(obs_data_get_double(s, ST_KEY_SHEAR_Y)),
                 RatZero>>,
     mipmap_enabled |-> obs_data_get_bool(s, ST_KEY_MIPMAPPING)]

updateDirtyIfChanged(self, s) ==
    [self EXCEPT !.params = ParseSettings(s),
                 !.update_mesh = (self.update_mesh \/ ParseSettings(s) # self.params)]

\* update(settings): the instance fields it writes.
update(self, s) == [self EXCEPT !.params = ParseSettings(s), !.update_mesh = TRUE]

----------------------------------------------------------------------------
(* transform_instance::video_tick.                                         *)

RotationSequenceXYZForXZY(order, rotation) ==
    LET X == <<"X", rotation[1]>>
        Y == <<"Y", rotation[2]>>
        Z == <<"Z", rotation[3]>>
    IN CASE order = RotationOrderXYZ -> <<X, Y, Z>>
         [] order = RotationOrderXZY -> <<X, Y, Z>>
         [] order = RotationOrderYXZ -> <<Y, X, Z>>
         [] order = RotationOrderYZX -> <<Y, Z, X>>
         [] order = RotationOrderZXY -> <<Z, X, Y>>
         [] order = RotationOrderZYX -> <<Z, Y, X>>
         [] OTHER -> << >>

\* The rotate calls of one case of the switch, in the order they are made:
\* <<axis, angle>>; no case matches a value outside 0..5.  Each call
\* multiplies the matrix on the right and vec3_transform multiplies the
\* vertex from the left, so the first call acts on the vertex first.
RotationSequence(order, rotation) ==
    LET X == <<"X", rotation[1]>>
        Y == <<"Y", rotation[2]>>
        Z == <<"Z", rotation[3]>>
    IN CASE order = RotationOrderXYZ -> <<X, Y, Z>>
         [] order = RotationOrderXZY -> <<X, Z, Y>>
         [] order = RotationOrderYXZ -> <<Y, X, Z>>
         [] order = RotationOrderYZX -> <<Y, Z, X>>
         [] order = RotationOrderZXY -> <<Z, X, Y>>
         [] order = RotationOrderZYX -> <<Z, Y, X>>
         [] OTHER -> << >>

\* matrix4 ident after the switch and matrix4_translate3f: the calls applied
\* to the identity, in order.
MeshMatrix(p) ==
    RotationSequence(p.rotation_order, p.rotation) \o << <<"T", p.position>> >>

ClampZeroNot(x) == x

\* if (width == 0) { width = 1; } and the same for height.
ClampZero(x) == IF x = 0 THEN 1 ELSE x

\* The divisor of float_t(width) / float_t(height).
AspectDivisor(width, height) == ClampZero(height)

AspectRatioXOfSource(p, width, height) ==
    Rat(ClampZero(width), AspectDivisor(width, height))

\* aspectRatioX: width / height, and 1 with the orthographic camera.
AspectRatioX(p, width, height) ==
    IF p.camera_orthographic THEN RatOne
    ELSE Rat(ClampZero(width), AspectDivisor(width, height))

Vertex(x, y, u, v, m) ==
    [color |-> "FFFFFFFF", uv |-> <<u, v>>, position |-> <<x, y, RatZero>>, transform |-> m]

BuildMeshShearSignSlip(p, width, height) ==
    LET m == MeshMatrix(p)
        p_x == RatMul(AspectRatioX(p, width, height), p.scale[1])
        p_y == RatMul(RatOne, p.scale[2])
        sx == p.shear[1]
        sy == p.shear[2]
    IN << Vertex(RatAdd(RatNeg(p_x), sx), RatSub(RatNeg(p_y), sy), 0, 0, m),
          Vertex(RatAdd(p_x, sx), RatAdd(RatNeg(p_y), sy), 1, 0, m),
          Vertex(RatAdd(RatNeg(p_x), sx), RatSub(p_y, sy), 0, 1, m),
          Vertex(RatSub(p_x, sx), RatAdd(p_y, sy), 1, 1, m) >>

\* The four vertices written by the "Generate mesh" blocks: the corner given
\* to vec3_set and the matrix given to vec3_transform.
BuildMesh(p, width, height) ==
    LET m == MeshMatrix(p)
        p_x == RatMul(AspectRatioX(p, width, height), p.scale[1])
        p_y == RatMul(RatOne, p.scale[2])
        sx == p.shear[1]
        sy == p.shear[2]
    IN << Vertex(RatAdd(RatNeg(p_x), sx), RatSub(RatNeg(p_y), sy), 0, 0, m),
          Vertex(RatAdd(p_x, sx), RatAdd(RatNeg(p_y), sy), 1, 0, m),
          Vertex(RatSub(RatNeg(p_x), sx), RatSub(p_y, sy), 0, 1, m),
          Vertex(RatSub(p_x, sx), RatAdd(p_y, sy), 1, 1, m) >>

\* "If size mismatch, force an update": the value of _update_mesh that the
\* rebuild reads.
MeshNeedsUpdateWidthOnly(self, width, height) ==
    self.update_mesh \/ width # self.source_size[1]

MeshNeedsUpdate(self, width, height) ==
    IF width # self.source_size[1] THEN TRUE
    ELSE IF height # self.source_size[2] THEN TRUE
    ELSE self.update_mesh

\* in: [target, width, height], the target and the extent it reports.
\* divisors: the values the call divided by.
video_tick(self, in) ==
    LET width == IF in.target THEN in.width ELSE 0
        height == IF in.target THEN in.height ELSE 0
        rebuild == MeshNeedsUpdate(self, width, height)
        s1 == IF rebuild
              THEN [self EXCEPT !.source_size = <<width, height>>,
                                !.mesh = BuildMesh(self.params, width, height),
                                !.update_mesh = FALSE]
              ELSE self
    IN [self |-> [s1 EXCEPT !.cache_rendered = FALSE,
                            !.mipmap_rendered = FALSE,
                            !.source_rendered = FALSE],
        rebuilt |-> rebuild,
        divisors |-> IF rebuild THEN {AspectDivisor(width, height)} ELSE {}]

----------------------------------------------------------------------------
(* Cache sizing (video_render, before the capture).                        *)

MaxTextureSize == 16384

\* util::math::get_power_of_two_exponent_ceil for v >= 1: the least e with
\* 2^e >= v.
RECURSIVE ExponentCeilFrom(_, _)
ExponentCeilFrom(v, e) == IF Pow2(e) >= v THEN e ELSE ExponentCeilFrom(v, e + 1)

get_power_of_two_exponent_ceil(v) == ExponentCeilFrom(v, 0)

Clamp(v, lo, hi) == IF v < lo THEN lo ELSE IF v > hi THEN hi ELSE v

\* uint32_t(pow(2, e)): 2^e when it fits 32 bits.  2^32, the power for a
\* value above 2^31, is out of the range of uint32_t and the conversion
\* undefined: cast is what the build makes of it.
PowerAsUint32(e, cast) == IF e < 32 THEN Pow2(e) ELSE cast

PowerOfTwoClampedNoSnap(v, cast) == Clamp(v, 1, MaxTextureSize)

PowerOfTwoClampedFloor(v, cast) ==
    LET p == PowerAsUint32(get_power_of_two_exponent_ceil(v), cast)
    IN Clamp(IF p > v THEN p \div 2 ELSE p, 1, MaxTextureSize)

\* std::clamp(uint32_t(pow(2, get_power_of_two_exponent_ceil(v))), 1u, 16384u)
PowerOfTwoClamped(v, cast) ==
    Clamp(PowerAsUint32(get_power_of_two_exponent_ceil(v), cast), 1, MaxTextureSize)

CacheSizeIndependent(mipmap_enabled, base_width, base_height, cast) ==
    IF ~mipmap_enabled THEN <<base_width, base_height>>
    ELSE <<PowerOfTwoClamped(base_width, cast), PowerOfTwoClamped(base_height, cast)>>

CacheSizeSnapAlways(mipmap_enabled, base_width, base_height, cast) ==
    LET cw == PowerOfTwoClamped(base_width, cast)
        ch == PowerOfTwoClamped(base_height, cast)
    IN IF base_width > base_height
       THEN <<cw, PowerOfTwoClamped((cw * base_height) \div base_width, cast)>>
       ELSE IF base_width < base_height
       THEN <<PowerOfTwoClamped((ch * base_width) \div base_height, cast), ch>>
       ELSE <<cw, ch>>

\* <<cache_width, cache_height>>.  aspect > 1.0 exactly when base_width >
\* base_height.  cache_width * aspect2 and cache_height * aspect are
\* truncated to an integer by the uint64_t cast; the rounding of the double
\* quotient can make the truncated value one less than the integer quotient,
\* which does not change its power-of-two ceiling for any extent used here.
\* cast: what the build makes of an out-of-range uint32_t(pow(2, 32)).
CacheSize(mipmap_enabled, base_width, base_height, cast) ==
    IF ~mipmap_enabled THEN <<base_width, base_height>>
    ELSE LET cw == PowerOfTwoClamped(base_width, cast)
             ch == PowerOfTwoClamped(base_height, cast)
         IN IF base_width > base_height
            THEN <<cw, PowerOfTwoClamped((cw * base_height) \div base_width, cast)>>
            ELSE IF base_width < base_height
            THEN <<PowerOfTwoClamped((ch * base_width) \div base_height, cast), ch>>
            ELSE <<cw, ch>>

----------------------------------------------------------------------------
(* transform_instance::video_render.                                       *)

NoTexture == [valid |-> FALSE, w |-> 0, h |-> 0, levels |-> 0]
Texture(w, h, levels) == [valid |-> TRUE, w |-> w, h |-> h, levels |-> levels]

\* A render target: its size and what was last drawn into it.
NewRenderTarget == [w |-> 0, h |-> 0, content |-> "none"]

\* rendertarget::get_texture: the texture of the target, or no handle.
get_texture(rt, present) == IF present THEN Texture(rt.w, rt.h, 1) ELSE NoTexture

Max(a, b) == IF a >= b THEN a ELSE b

\* What one call did and what it was answered: for video_render the stages
\* that ran, the answers of the hook and of the get_texture calls, and
\* whether the call ended by an exception of the texture creation, the
\* values the call divided by, and the passes it ran in their order; for
\* video_tick whether the mesh was rebuilt, and _update_mesh and _source_size
\* as the call found them.
NoOutcome ==
    [skips |-> 0, hook |-> "none", cache_tex |-> "none", mip_tex |-> "none",
     source_tex |-> "none", captured |-> FALSE, allocated |-> FALSE,
     mipmap |-> FALSE, transform |-> FALSE, composite |-> 0,
     cache_size |-> <<0, 0>>, mip_src |-> <<0, 0>>, mip_dst |-> <<0, 0>>,
     sampled |-> "none", projection |-> "none", raised |-> FALSE,
     divisors |-> {}, stages |-> << >>,
     rebuilt |-> FALSE, was_dirty |-> FALSE, prev_size |-> <<0, 0>>]

\* obs_source_skip_video_filter(_self); return;
Skip(x) == [x EXCEPT !.out.skips = @ + 1, !.done = TRUE]

\* The divisors of the cache sizing: base_height for aspect, aspect (zero
\* exactly when base_width is) for aspect2.
CacheSizeDivisors(mipmap_enabled, base_width, base_height) ==
    IF mipmap_enabled THEN {base_height, base_width} ELSE {}

\* "Skip if something is wrong.", then the cache sizing.
EntryGuard(x, in) ==
    IF in.width = 0 \/ in.height = 0 \/ ~in.parent \/ ~in.target
    THEN Skip(x)
    ELSE [x EXCEPT !.out.cache_size =
              CacheSize(x.self.params.mipmap_enabled, in.width, in.height,
                        in.pow2_cast),
                   !.out.divisors =
              CacheSizeDivisors(x.self.params.mipmap_enabled, in.width, in.height)]

CaptureNeededAlways(self) == TRUE

\* if (!_cache_rendered)
CaptureNeeded(self) == ~self.cache_rendered

CaptureStageFlagFirst(x, in) ==
    IF x.done \/ ~CaptureNeeded(x.self) THEN x
    ELSE LET cs == x.out.cache_size
             bound == [w |-> cs[1], h |-> cs[2], content |-> "cleared"]
         IN IF in.hook
            THEN [x EXCEPT !.self.cache_rt = [bound EXCEPT !.content = "source"],
                           !.self.cache_rendered = TRUE,
                           !.out.hook = "accepted",
                           !.out.captured = TRUE,
                           !.out.stages = Append(@, "capture")]
            ELSE Skip([x EXCEPT !.self.cache_rt = bound,
                                !.self.cache_rendered = TRUE,
                                !.out.hook = "refused"])

CaptureStageNoFlag(x, in) ==
    IF x.done \/ ~CaptureNeeded(x.self) THEN x
    ELSE LET cs == x.out.cache_size
             bound == [w |-> cs[1], h |-> cs[2], content |-> "cleared"]
         IN IF in.hook
            THEN [x EXCEPT !.self.cache_rt = [bound EXCEPT !.content = "source"],
                           !.out.hook = "accepted",
                           !.out.captured = TRUE,
                           !.out.stages = Append(@, "capture")]
            ELSE Skip([x EXCEPT !.self.cache_rt = bound,
                                !.out.hook = "refused"])

\* The "Cache" block: bind and clear the capture surface, then the filter
\* hook; in.hook is the answer of obs_source_process_filter_begin.
CaptureStage(x, in) ==
    IF x.done \/ ~CaptureNeeded(x.self) THEN x
    ELSE LET cs == x.out.cache_size
             bound == [w |-> cs[1], h |-> cs[2], content |-> "cleared"]
         IN IF in.hook
            THEN [x EXCEPT !.self.cache_rt = [bound EXCEPT !.content = "source"],
                           !.self.cache_rendered = TRUE,
                           !.out.hook = "accepted",
                           !.out.captured = TRUE,
                           !.out.stages = Append(@, "capture")]
            ELSE Skip([x EXCEPT !.self.cache_rt = bound,
                                !.out.hook = "refused"])

\* _cache_rt->get_texture(_cache_texture); in.cache_tex: a handle comes back.
CacheTextureStage(x, in) ==
    IF x.done THEN x
    ELSE LET t == get_texture(x.self.cache_rt, in.cache_tex)
             y == [x EXCEPT !.self.cache_texture = t,
                            !.out.cache_tex = IF t.valid THEN "ok" ELSE "null"]
         IN IF ~t.valid THEN Skip(y) ELSE y

\* The reallocation test of the "Mipmap" block.
MipmapAllocationNeededWidthOnly(tex, cs) ==
    ~tex.valid \/ tex.w # cs[1]

MipmapAllocationNeeded(tex, cs) ==
    ~tex.valid \/ tex.w # cs[1] \/ tex.h # cs[2]

\* The exception of std::make_shared<texture> leaves video_render: nothing
\* after the expression runs, the assignment included.
Raise(x) == [x EXCEPT !.out.raised = TRUE, !.done = TRUE]

MipmapStageReleaseFirst(x, in) ==
    IF x.done \/ ~x.self.params.mipmap_enabled THEN x
    ELSE LET cs == x.out.cache_size
             need == MipmapAllocationNeeded(x.self.mipmap_texture, cs)
             mip_levels == Max(get_power_of_two_exponent_ceil(cs[1]),
                               get_power_of_two_exponent_ceil(cs[2]))
             tex == IF need THEN Texture(cs[1], cs[2], mip_levels)
                    ELSE x.self.mipmap_texture
             y == [x EXCEPT !.self.mipmap_texture = tex,
                            !.self.mipmap_rendered = TRUE,
                            !.out.allocated = need,
                            !.out.mipmap = TRUE,
                            !.out.stages = Append(@, "mipmap"),
                            !.out.mip_src = <<x.self.cache_texture.w, x.self.cache_texture.h>>,
                            !.out.mip_dst = <<tex.w, tex.h>>,
                            !.out.mip_tex = IF tex.valid THEN "ok" ELSE "null"]
         IN IF need /\ ~in.mip_create
            THEN Raise([x EXCEPT !.self.mipmap_texture = NoTexture])
            ELSE IF ~tex.valid THEN Skip(y) ELSE y

\* The "Mipmap" block.  std::make_shared<texture> returns a texture or
\* leaves by an exception (in.mip_create: the texture is created); the
\* assignment to _mipmap_texture releases the texture held before.  rebuild
\* reads the capture texture and writes the mipmap texture.
MipmapStage(x, in) ==
    IF x.done \/ ~x.self.params.mipmap_enabled THEN x
    ELSE LET cs == x.out.cache_size
             need == MipmapAllocationNeeded(x.self.mipmap_texture, cs)
             mip_levels == Max(get_power_of_two_exponent_ceil(cs[1]),
                               get_power_of_two_exponent_ceil(cs[2]))
             tex == IF need THEN Texture(cs[1], cs[2], mip_levels)
                    ELSE x.self.mipmap_texture
             y == [x EXCEPT !.self.mipmap_texture = tex,
                            !.self.mipmap_rendered = TRUE,
                            !.out.allocated = need,
                            !.out.mipmap = TRUE,
                            !.out.stages = Append(@, "mipmap"),
                            !.out.mip_src = <<x.self.cache_texture.w, x.self.cache_texture.h>>,
                            !.out.mip_dst = <<tex.w, tex.h>>,
                            !.out.mip_tex = IF tex.valid THEN "ok" ELSE "null"]
         IN IF need /\ ~in.mip_create
            THEN Raise(x)
            ELSE IF ~tex.valid THEN Skip(y) ELSE y

\* The "Transform" block: bind the intermediate surface at the native size,
\* select the projection (gs_perspective is given base_width / base_height),
\* draw the mesh with the sampled image.
\* _camera_orthographic as the name of the camera mode.
CameraOf(p) == IF p.camera_orthographic THEN "orthographic" ELSE "perspective"

TransformStage(x, in) ==
    IF x.done THEN x
    ELSE [x EXCEPT !.self.source_rt =
                       [w |-> in.width, h |-> in.height, content |-> "mesh"],
                   !.out.transform = TRUE,
                   !.out.stages = Append(@, "transform"),
                   !.out.divisors =
                       IF x.self.params.camera_orthographic THEN @ ELSE @ \cup {in.height},
                   !.out.projection = CameraOf(x.self.params),
                   !.out.sampled =
                       IF x.self.params.mipmap_enabled
                       THEN (IF x.self.mipmap_texture.valid THEN "mipmap" ELSE "cache")
                       ELSE "cache"]

\* _source_rt->get_texture(_source_texture); in.source_tex: a handle comes back.
SourceTextureStage(x, in) ==
    IF x.done THEN x
    ELSE LET t == get_texture(x.self.source_rt, in.source_tex)
             y == [x EXCEPT !.self.source_texture = t,
                            !.out.source_tex = IF t.valid THEN "ok" ELSE "null"]
         IN IF ~t.valid THEN Skip(y) ELSE y

\* The "Render" block: gs_draw_sprite into the effect of the host.
CompositeStage(x, in) ==
    IF x.done THEN x
    ELSE [x EXCEPT !.out.composite = @ + 1,
                   !.out.stages = Append(@, "composite"),
                   !.done = TRUE]

video_renderTransformBeforeMipmap(self, in) ==
    LET x0 == [self |-> self, out |-> NoOutcome, done |-> FALSE]
    IN CompositeStage(
         SourceTextureStage(
           MipmapStage(
             TransformStage(
               CacheTextureStage(
                 CaptureStage(
                   EntryGuard(x0, in), in), in), in), in), in), in)

\* in: [parent, target, width, height, hook, cache_tex, mip_create, source_tex,
\* pow2_cast].
video_render(self, in) ==
    LET x0 == [self |-> self, out |-> NoOutcome, done |-> FALSE]
    IN CompositeStage(
         SourceTextureStage(
           TransformStage(
             MipmapStage(
               CacheTextureStage(
                 CaptureStage(
                   EntryGuard(x0, in), in), in), in), in), in), in)

----------------------------------------------------------------------------
(* Inputs.                                                                 *)

EmptySettings == [k \in {} |-> Unset]

\* Values a key of an initial snapshot may hold: the integer 1 and the
\* double 3 / DoubleScale.
SampleValues == {IntVal(1), DoubleVal(3)}

\* Snapshots in which at most n keys hold a user value.
RECURSIVE Snapshots(_)
Snapshots(n) ==
    IF n = 0 THEN {EmptySettings}
    ELSE LET P == Snapshots(n - 1)
         IN P \cup { obs_data_set(s, k, x) : s \in P, k \in Keys, x \in SampleValues }

\* Versions handed to migrate: below 0.8.0, below 0.11.0 (with a tweak
\* field that the mask removes), 0.11.0 and later.
Versions ==
    { <<0, 7, 5, 0>>, <<0, 10, 3, 7>>, <<0, 10, 65535, 65535>>,
      <<0, 11, 0, 0>>, <<1, 2, 0, 0>> }

\* Settings handed to update.
UpdateSettings ==
    { EmptySettings,
      [k \in {ST_KEY_MIPMAPPING} |-> BoolVal(TRUE)],
      [k \in {ST_KEY_CAMERA_MODE, ST_KEY_MIPMAPPING, ST_KEY_SCALE_X, ST_KEY_SHEAR_X,
               ST_KEY_POSITION_X, ST_KEY_ROTATION_Z, ST_KEY_ROTATION_ORDER} |->
         CASE k = ST_KEY_CAMERA_MODE -> IntVal(CameraModePerspective)
           [] k = ST_KEY_MIPMAPPING -> BoolVal(TRUE)
           [] k = ST_KEY_SCALE_X -> DoubleVal(50 * DoubleScale)
           [] k = ST_KEY_SHEAR_X -> DoubleVal(10 * DoubleScale)
           [] k = ST_KEY_POSITION_X -> DoubleVal(25 * DoubleScale)
           [] k = ST_KEY_ROTATION_Z -> DoubleVal(90 * DoubleScale)
           [] OTHER -> IntVal(RotationOrderXYZ)] }

\* Extents <<width, height>> a present target reports to video_tick: a
\* change of the width alone, of the height alone, and a zero height.
Extents == { <<3, 2>>, <<1, 2>>, <<1, 0>> }

\* Extents a present target reports to video_render.
RenderExtents == { <<3, 2>>, <<1, 0>> }

\* What the host answers to video_tick: no target, or a target and its extent.
TickInputs ==
    { [parent |-> TRUE, target |-> FALSE, width |-> 0, height |-> 0] }
    \cup { [parent |-> TRUE, target |-> TRUE, width |-> e[1], height |-> e[2]] : e \in Extents }

\* What an out-of-range uint32_t(pow(2, 32)) yields: 0 where the conversion
\* wraps (x86-64), the largest value where it saturates; every value above
\* 16384 is clamped alike, and 2^31 - 1 stands for them.
OverflowCasts == {0, 2147483647}

\* The extents of these inputs are far below 2^31: the conversion is in
\* range and its out-of-range outcome is never asked for.
InRangeCast == 0

\* The answers of the filter hook and of the two get_texture calls: all
\* given, or the first refusal (an answer after the refusal is never asked
\* for), and whether the mipmap texture can be created (mip_create FALSE:
\* std::make_shared throws).
Answers ==
    { [hook |-> TRUE, cache_tex |-> TRUE, mip_create |-> TRUE, source_tex |-> TRUE],
      [hook |-> FALSE, cache_tex |-> TRUE, mip_create |-> TRUE, source_tex |-> TRUE],
      [hook |-> TRUE, cache_tex |-> FALSE, mip_create |-> TRUE, source_tex |-> TRUE],
      [hook |-> TRUE, cache_tex |-> TRUE, mip_create |-> FALSE, source_tex |-> TRUE],
      [hook |-> TRUE, cache_tex |-> TRUE, mip_create |-> TRUE, source_tex |-> FALSE] }

\* What the host answers to video_render.  A missing target reports 0 x 0.
RenderInputs ==
    { [parent |-> p, target |-> FALSE, width |-> 0, height |-> 0,
       hook |-> TRUE, cache_tex |-> TRUE, mip_create |-> TRUE, source_tex |-> TRUE,
       pow2_cast |-> InRangeCast] : p \in BOOLEAN }
    \cup { [parent |-> FALSE, target |-> TRUE, width |-> 3, height |-> 2,
            hook |-> TRUE, cache_tex |-> TRUE, mip_create |-> TRUE, source_tex |-> TRUE,
            pow2_cast |-> InRangeCast] }
    \cup { [parent |-> TRUE, target |-> TRUE, width |-> e[1], height |-> e[2],
            hook |-> a.hook, cache_tex |-> a.cache_tex, mip_create |-> a.mip_create,
            source_tex |-> a.source_tex, pow2_cast |-> InRangeCast] :
            e \in RenderExtents, a \in Answers }

----------------------------------------------------------------------------
(* State.                                                                  *)

Self ==
    [params |-> params, update_mesh |-> update_mesh, source_size |-> source_size,
     mesh |-> mesh, cache_rendered |-> cache_rendered,
     mipmap_rendered |-> mipmap_rendered, source_rendered |-> source_rendered,
     cache_rt |-> cache_rt, cache_texture |-> cache_texture,
     mipmap_texture |-> mipmap_texture, source_rt |-> source_rt,
     source_texture |-> source_texture]

\* The instance fields are the fields of n.
Holds(n) ==
    /\ params = n.params
    /\ update_mesh = n.update_mesh
    /\ source_size = n.source_size
    /\ mesh = n.mesh
    /\ cache_rendered = n.cache_rendered
    /\ mipmap_rendered = n.mipmap_rendered
    /\ source_rendered = n.source_rendered
    /\ cache_rt = n.cache_rt
    /\ cache_texture = n.cache_texture
    /\ mipmap_texture = n.mipmap_texture
    /\ source_rt = n.source_rt
    /\ source_texture = n.source_texture

\* The instance fields become the fields of n.
Becomes(n) ==
    /\ params' = n.params
    /\ update_mesh' = n.update_mesh
    /\ source_size' = n.source_size
    /\ mesh' = n.mesh
    /\ cache_rendered' = n.cache_rendered
    /\ mipmap_rendered' = n.mipmap_rendered
    /\ source_rendered' = n.source_rendered
    /\ cache_rt' = n.cache_rt
    /\ cache_texture' = n.cache_texture
    /\ mipmap_texture' = n.mipmap_texture
    /\ source_rt' = n.source_rt
    /\ source_texture' = n.source_texture

NoInput == [parent |-> FALSE, target |-> FALSE, width |-> 0, height |-> 0]
HostAnswer(in) ==
    [parent |-> in.parent, target |-> in.target, width |-> in.width, height |-> in.height]

NoEvent == [op |-> "none", arg |-> EmptySettings, in |-> NoInput, out |-> NoOutcome]
NoMigration == [op |-> "none", version |-> <<0, 0, 0, 0>>, pre |-> EmptySettings]
ZeroStats == [captures |-> 0, mipmaps |-> 0, transforms |-> 0, refused |-> FALSE]

\* The vertex buffer before the first rebuild: four vertices nobody wrote.
UnwrittenMesh ==
    [i \in 1..4 |-> [color |-> "unwritten", uv |-> <<0, 0>>,
                     position |-> <<RatZero, RatZero, RatZero>>, transform |-> << >>]]

\* transform_instance::transform_instance(data, context): the member
\* initialisers and update(data).  _mipmap_rendered has no initialiser.
Constructed(data, mipmap_rendered_garbage) ==
    update([params |-> ParseSettings(data), update_mesh |-> FALSE,
            source_size |-> <<0, 0>>, mesh |-> UnwrittenMesh,
            cache_rendered |-> FALSE, mipmap_rendered |-> mipmap_rendered_garbage,
            source_rendered |-> FALSE,
            cache_rt |-> NewRenderTarget, cache_texture |-> NoTexture,
            mipmap_texture |-> NoTexture, source_rt |-> NewRenderTarget,
            source_texture |-> NoTexture], data)

InitInstance(data) ==
    /\ \E g \in BOOLEAN : Holds(Constructed(data, g))
    /\ updated = TRUE
    /\ ev = NoEvent
    /\ tickStats = ZeroStats
    /\ mesh_camera = "none"

----------------------------------------------------------------------------
(* The instance driven by the host: update, video_tick, video_render.      *)

Init ==
    /\ settings = EmptySettings
    /\ mig = NoMigration
    /\ InitInstance(settings)

UpdateWith(s) ==
    /\ Becomes(update(Self, s))
    /\ updated' = TRUE
    /\ ev' = [op |-> "update", arg |-> s, in |-> NoInput,
              out |-> [NoOutcome EXCEPT !.was_dirty = update_mesh]]
    /\ UNCHANGED <<settings, mig, tickStats, mesh_camera>>

Update == \E s \in UpdateSettings : UpdateWith(s)

TickWith(in) ==
    LET r == video_tick(Self, in)
    IN /\ Becomes(r.self)
       /\ updated' = IF r.rebuilt THEN FALSE ELSE updated
       /\ ev' = [op |-> "video_tick", arg |-> EmptySettings, in |-> HostAnswer(in),
                 out |-> [NoOutcome EXCEPT !.rebuilt = r.rebuilt,
                                           !.divisors = r.divisors,
                                           !.was_dirty = update_mesh,
                                           !.prev_size = source_size]]
       /\ tickStats' = ZeroStats
       /\ mesh_camera' = IF r.rebuilt THEN CameraOf(params) ELSE mesh_camera
       /\ UNCHANGED <<settings, mig>>

VideoTick == \E in \in TickInputs : TickWith(in)

Count(b) == IF b THEN 1 ELSE 0

RenderWith(in) ==
    /\ tickStats.transforms < MaxRendersPerTick
    /\ LET r == video_render(Self, in)
       IN /\ Becomes(r.self)
          /\ ev' = [op |-> "video_render", arg |-> EmptySettings,
                    in |-> HostAnswer(in), out |-> r.out]
          /\ tickStats' = [captures |-> tickStats.captures + Count(r.out.captured),
                           mipmaps |-> tickStats.mipmaps + Count(r.out.mipmap),
                           transforms |-> tickStats.transforms + Count(r.out.transform),
                           refused |-> tickStats.refused \/ r.out.hook = "refused"]
          /\ UNCHANGED <<settings, mig, updated, mesh_camera>>

VideoRender == \E in \in RenderInputs : RenderWith(in)

Next == Update \/ VideoTick \/ VideoRender

Spec == Init /\ [][Next]_vars

----------------------------------------------------------------------------
(* The settings migration on its own.                                      *)

InitMigrate ==
    /\ settings \in Snapshots(MaxUserKeys)
    /\ mig = NoMigration
    /\ InitInstance(settings)

Migrate ==
    \E version \in Versions :
        /\ settings' = migrate(settings, version)
        /\ mig' = [op |-> "migrate", version |-> version, pre |-> settings]
        /\ UNCHANGED instanceVars

NextMigrate == Migrate

SpecMigrate == InitMigrate /\ [][NextMigrate]_vars

----------------------------------------------------------------------------
(* The cache sizing on its own: one video_render call of a new instance.   *)

\* Native extents above the small ones: the example of the documentation,
\* the largest texture size, and extents above it.
LargeExtents == {1080, 1920, 16384, 16385, 40000}

SizingExtents == (1..MaxSmallExtent) \cup LargeExtents

\* Mipmapping off (the default) and on.
SizingSettings == { EmptySettings, [k \in {ST_KEY_MIPMAPPING} |-> BoolVal(TRUE)] }

SizingInputs ==
    { [parent |-> TRUE, target |-> TRUE, width |-> w, height |-> h,
       hook |-> TRUE, cache_tex |-> TRUE, mip_create |-> TRUE, source_tex |-> TRUE,
       pow2_cast |-> c] :
       w \in SizingExtents, h \in SizingExtents, c \in OverflowCasts }

InitCacheSizing ==
    /\ settings \in SizingSettings
    /\ mig = NoMigration
    /\ InitInstance(settings)

RenderSized ==
    /\ ev.op = "none"
    /\ \E in \in SizingInputs : RenderWith(in)

NextCacheSizing == RenderSized

SpecCacheSizing == InitCacheSizing /\ [][NextCacheSizing]_vars

----------------------------------------------------------------------------
(* The mipmap texture across video_render calls: the native extent changes *)
(* between calls, mipmapping is switched on and off, and the creation of   *)
(* the mipmap texture can fail.                                            *)

\* Native extents with the cache resolutions 4 x 2, 4 x 4 and 8 x 4.
ResizeExtents == { <<3, 2>>, <<3, 3>>, <<5, 2>> }

\* All answers given, the hook refuses, the creation of the texture fails.
ResizeAnswers ==
    { [hook |-> TRUE, cache_tex |-> TRUE, mip_create |-> TRUE, source_tex |-> TRUE],
      [hook |-> FALSE, cache_tex |-> TRUE, mip_create |-> TRUE, source_tex |-> TRUE],
      [hook |-> TRUE, cache_tex |-> TRUE, mip_create |-> FALSE, source_tex |-> TRUE] }

ResizeInputs ==
    { [parent |-> TRUE, target |-> TRUE, width |-> e[1], height |-> e[2],
       hook |-> a.hook, cache_tex |-> a.cache_tex, mip_create |-> a.mip_create,
       source_tex |-> a.source_tex, pow2_cast |-> InRangeCast] :
       e \in ResizeExtents, a \in ResizeAnswers }

\* video_tick samples one extent: the mesh plays no part here.
ResizeTickInputs == { [parent |-> TRUE, target |-> TRUE, width |-> 3, height |-> 2] }

UpdateMipmapping == \E s \in SizingSettings : UpdateWith(s)

VideoTickResized == \E in \in ResizeTickInputs : TickWith(in)

RenderResized == \E in \in ResizeInputs : RenderWith(in)

NextResize == UpdateMipmapping \/ VideoTickResized \/ RenderResized

SpecResize == Init /\ [][NextResize]_vars

----------------------------------------------------------------------------
(* The mesh on its own: update and video_tick with every rotation order.   *)

RotationOrders ==
    { RotationOrderXYZ, RotationOrderXZY, RotationOrderYXZ,
      RotationOrderYZX, RotationOrderZXY, RotationOrderZYX }

\* Settings with a different value for every parameter: position
\* (25, 50, 75) %, rotation (30, 60, 90) degrees, scale (50, 200) %, shear
\* (10, 20) %.
MeshSettingsWith(order, mode) ==
    [k \in CurrentKeys \ {ST_KEY_CAMERA_FIELDOFVIEW, ST_KEY_MIPMAPPING} |->
       CASE k = ST_KEY_CAMERA_MODE -> IntVal(mode)
         [] k = ST_KEY_ROTATION_ORDER -> IntVal(order)
         [] k = ST_KEY_POSITION_X -> DoubleVal(25 * DoubleScale)
         [] k = ST_KEY_POSITION_Y -> DoubleVal(50 * DoubleScale)
         [] k = ST_KEY_POSITION_Z -> DoubleVal(75 * DoubleScale)
         [] k = ST_KEY_ROTATION_X -> DoubleVal(30 * DoubleScale)
         [] k = ST_KEY_ROTATION_Y -> DoubleVal(60 * DoubleScale)
         [] k = ST_KEY_ROTATION_Z -> DoubleVal(90 * DoubleScale)
         [] k = ST_KEY_SCALE_X -> DoubleVal(50 * DoubleScale)
         [] k = ST_KEY_SCALE_Y -> DoubleVal(200 * DoubleScale)
         [] k = ST_KEY_SHEAR_X -> DoubleVal(10 * DoubleScale)
         [] OTHER -> DoubleVal(20 * DoubleScale)]

\* The defaults, and the settings above with every rotation order and
\* camera mode.
MeshSettings ==
    {EmptySettings}
    \cup { MeshSettingsWith(order, mode) :
             order \in RotationOrders,
             mode \in {CameraModeOrthographic, CameraModePerspective} }

\* The source extents of the documentation's examples.
MeshExtents == { <<1920, 1080>>, <<640, 480>>, <<800, 600>> }

MeshTickInputs ==
    { [parent |-> TRUE, target |-> TRUE, width |-> e[1], height |-> e[2]] : e \in MeshExtents }

UpdateMesh == \E s \in MeshSettings : UpdateWith(s)

VideoTickMesh == \E in \in MeshTickInputs : TickWith(in)

NextMesh == UpdateMesh \/ VideoTickMesh

SpecMesh == Init /\ [][NextMesh]_vars

----------------------------------------------------------------------------
(* Properties of the render pipeline.                                      *)

GuardPassed(in) == in.parent /\ in.target /\ in.width # 0 /\ in.height # 0

\* C1: between two video_tick calls the capture completes at most once,
\* however many video_render calls occur, and after a capture of the tick
\* _cache_rendered is true at every point up to the next video_tick.
C1_CaptureAtMostOncePerTick ==
    /\ tickStats.captures <= 1
    /\ tickStats.captures = 1 => cache_rendered

\* Two video_render calls of one tick reached the transform pass and only
\* one of them captured.
C1_Witness ==
    /\ tickStats.transforms >= 2
    /\ tickStats.captures = 1
    /\ cache_rendered

\* C2: between two video_tick calls the mipmap rebuild and the transform
\* pass each run at most once, even when video_render is called several times.
C2_MipmapAndTransformAtMostOncePerTick ==
    tickStats.mipmaps <= 1 /\ tickStats.transforms <= 1

\* C3: a video_render call whose filter hook refuses to begin signals skip
\* once, runs neither the mipmap build nor the transform pass nor the
\* composite, leaves _cache_rendered false and leaves the parameters, the
\* mesh, _update_mesh, _source_size, _cache_texture and _mipmap_texture as
\* they were.
C3_RefusedCaptureRetainsNothing ==
    [][(ev'.op = "video_render" /\ ev'.out.hook = "refused")
          => /\ ev'.out.skips = 1
             /\ ~ev'.out.mipmap /\ ~ev'.out.transform /\ ev'.out.composite = 0
             /\ ~cache_rendered'
             /\ UNCHANGED <<params, mesh, update_mesh, source_size,
                            cache_texture, mipmap_texture>>]_vars

\* The hook refused in a call made while the instance held a capture texture
\* and a mipmap texture; the capture surface had been bound and cleared.
C3_Witness ==
    /\ ev.op = "video_render" /\ ev.out.hook = "refused"
    /\ cache_rt.content = "cleared"
    /\ cache_texture.valid /\ mipmap_texture.valid
    /\ ~cache_rendered

\* C4: as long as no capture has succeeded in the tick, every video_render
\* call that passes the entry guard asks the filter hook again, and if the
\* hook accepts the capture completes and _cache_rendered is set; when the
\* host keeps calling and the hook accepts again and again, a refused capture
\* is followed by a successful one.
C4_RefusedCaptureIsRetried ==
    /\ [][(tickStats.captures = 0 /\ ev'.op = "video_render" /\ GuardPassed(ev'.in))
            => /\ ev'.out.hook \in {"accepted", "refused"}
               /\ (ev'.out.hook = "accepted" => (ev'.out.captured /\ cache_rendered'))]_vars
    /\ ([]<>(ev.op = "video_render" /\ GuardPassed(ev.in) /\ ev.out.hook # "refused"))
          => ((ev.op = "video_render" /\ ev.out.hook = "refused") ~> ev.out.captured)

\* A capture succeeded in a tick in which the hook had refused before.
C4_Witness ==
    /\ ev.op = "video_render" /\ ev.out.hook = "accepted" /\ ev.out.captured
    /\ tickStats.refused
    /\ tickStats.captures = 1
    /\ cache_rendered

\* The conditions under which video_render gives up.
SkipCondition ==
    \/ ~ev.in.parent \/ ~ev.in.target
    \/ ev.in.width = 0 \/ ev.in.height = 0
    \/ ev.out.hook = "refused"
    \/ ev.out.cache_tex = "null"
    \/ (params.mipmap_enabled /\ ev.out.mip_tex = "null")
    \/ ev.out.source_tex = "null"

\* C5: every video_render call either signals skip exactly once and draws no
\* composite, or draws the composite and signals no skip; it signals skip
\* exactly when the parent or target is missing, the native width or height
\* is zero, the hook refuses, or a needed texture handle is absent.
C5_SkipOrComposite ==
    ev.op = "video_render"
        => /\ ev.out.skips \in {0, 1} /\ ev.out.composite \in {0, 1}
           /\ ev.out.skips + ev.out.composite = 1
           /\ (ev.out.skips = 1 <=> SkipCondition)

\* C6: a video_tick rebuilds the mesh (all 4 vertices, _update_mesh cleared,
\* the sampled extent stored) if and only if update was called since the last
\* rebuild or the sampled width or the sampled height differs from the stored
\* one; otherwise the mesh and the stored extent stay as they are.
C6_TickRebuildsMeshIff ==
    [][ev'.op = "video_tick"
          => LET w == ev'.in.width
                 h == ev'.in.height
             IN /\ ev'.out.rebuilt
                     <=> (updated \/ w # source_size[1] \/ h # source_size[2])
                /\ ev'.out.rebuilt
                     => /\ mesh' = BuildMesh(params, w, h)
                        /\ \A i \in 1..4 : mesh'[i].color = "FFFFFFFF"
                        /\ ~update_mesh'
                        /\ source_size' = <<w, h>>
                /\ ~ev'.out.rebuilt => UNCHANGED <<mesh, source_size>>]_vars

\* A tick rebuilt the mesh because the height alone had changed.
C6_Witness ==
    /\ ev.op = "video_tick" /\ ev.out.rebuilt
    /\ ~ev.out.was_dirty
    /\ ev.out.prev_size[1] = source_size[1]
    /\ ev.out.prev_size[2] # source_size[2]

----------------------------------------------------------------------------
(* Properties of migrate.                                                  *)

\* Both hold a user value and the values are equal as numbers.
SameUserValue(a, b) ==
    /\ a.t # "unset" /\ b.t # "unset"
    /\ \/ a = b
       \/ /\ a.t \in {"int", "double"} /\ b.t \in {"int", "double"}
          /\ NumberAsDouble(a) = NumberAsDouble(b)

\* A.B.C of the version is below 0.11.0.
Below_0_11(version) == version[1] = 0 /\ version[2] < 11

\* C7: migrate run a second time with the same version leaves the snapshot
\* as the first run left it.
C7_MigrateIdempotent ==
    [][(mig.op = "migrate" /\ mig'.op = "migrate" /\ mig'.version = mig.version)
          => settings' = settings]_vars

\* C8: a user value stored under a current key name before migrate is still
\* there, unchanged, after migrate.
C8_MigrateKeepsCurrentValues ==
    mig.op = "migrate"
        => \A k \in CurrentKeys :
              obs_data_has_user_value(mig.pre, k)
                  => SameUserValue(UserValue(settings, k), UserValue(mig.pre, k))

\* C9: for a version below 0.11.0, a legacy key with a user value whose
\* current key has none gives the current key that value.
C9_MigrateRenamesLegacyToCurrent ==
    (mig.op = "migrate" /\ Below_0_11(mig.version))
        => \A k \in CurrentKeys :
              (/\ obs_data_has_user_value(mig.pre, LegacyOf(k))
               /\ ~obs_data_has_user_value(mig.pre, k))
                  => SameUserValue(UserValue(settings, k), UserValue(mig.pre, LegacyOf(k)))

\* C10 as stated: migrate of a snapshot without any user value leaves it
\* without any user value.
C10_MigrateOfNothingIsNoop ==
    (mig.op = "migrate" /\ mig.pre = EmptySettings) => settings = EmptySettings

\* C10 amended: migrate of a snapshot without any user value leaves it
\* unchanged for a version from 0.11.0 on; for a version below 0.11.0 it
\* gives Camera.Mode the user value 0 (orthographic) and no other key a value.
C10_MigrateOfNothingSetsCameraMode ==
    (mig.op = "migrate" /\ mig.pre = EmptySettings)
        => settings = IF Below_0_11(mig.version)
                      THEN [k \in {ST_KEY_CAMERA_MODE} |-> IntVal(0)]
                      ELSE EmptySettings

\* migrate with a version below 0.11.0 ran on a snapshot without user values.
C10_Witness ==
    /\ mig.op = "migrate" /\ mig.pre = EmptySettings
    /\ Below_0_11(mig.version)
    /\ UserValue(settings, ST_KEY_CAMERA_MODE) = IntVal(0)

----------------------------------------------------------------------------
(* Properties of the cache sizing.                                         *)

IsPowerOfTwo(n) == \E e \in 0..14 : n = Pow2(e)

\* c is the least power of two that is at least n / d, brought into
\* 1..16384: stated without the operators of the model.
IsClampedPowerOfTwoCeiling(c, n, d) ==
    /\ IsPowerOfTwo(c)
    /\ c * d >= n \/ c = 16384
    /\ c = 1 \/ (c \div 2) * d < n

\* A video_render call that got past the entry guard with mipmapping on / off.
SizedWithMipmapping == ev.op = "video_render" /\ GuardPassed(ev.in) /\ params.mipmap_enabled
SizedWithoutMipmapping == ev.op = "video_render" /\ GuardPassed(ev.in) /\ ~params.mipmap_enabled

\* C11: with mipmapping enabled, for every native width and height of at
\* least 1 the cache width and the cache height are each a power of two in
\* 1..16384, and the capture surface is bound at that size.
C11_CacheSizeIsPowerOfTwo ==
    SizedWithMipmapping
        => /\ \A i \in 1..2 : /\ IsPowerOfTwo(ev.out.cache_size[i])
                              /\ ev.out.cache_size[i] >= 1
                              /\ ev.out.cache_size[i] <= 16384
           /\ <<cache_rt.w, cache_rt.h>> = ev.out.cache_size

\* A native extent above 16384 with an extreme aspect ratio was sized.
C11_Witness ==
    /\ SizedWithMipmapping /\ ev.out.captured
    /\ ev.in.width = 40000 /\ ev.in.height = 1
    /\ ev.out.cache_size = <<16384, 1>>

\* C12 as stated: with mipmapping enabled and native w > h the cache width
\* is the power-of-two ceiling of w and the cache height the power-of-two
\* ceiling of the quotient (cache width) / (w / h), both brought into
\* 1..16384; with w < h the same with the axes exchanged; with w = h both
\* axes are rounded on their own; 1920 x 1080 gives 2048 x 2048.
C12_RecomputedAxisIsCeilingOfQuotient ==
    SizedWithMipmapping
        => LET w == ev.in.width
               h == ev.in.height
               cw == ev.out.cache_size[1]
               ch == ev.out.cache_size[2]
           IN /\ w > h => /\ IsClampedPowerOfTwoCeiling(cw, w, 1)
                          /\ IsClampedPowerOfTwoCeiling(ch, cw * h, w)
              /\ w < h => /\ IsClampedPowerOfTwoCeiling(ch, h, 1)
                          /\ IsClampedPowerOfTwoCeiling(cw, ch * w, h)
              /\ w = h => /\ IsClampedPowerOfTwoCeiling(cw, w, 1)
                          /\ IsClampedPowerOfTwoCeiling(ch, h, 1)
              /\ (w = 1920 /\ h = 1080) => (cw = 2048 /\ ch = 2048)

\* C12 amended: as C12, with the recomputed axis the power-of-two ceiling of
\* the integer part of the quotient.
C12_RecomputedAxisIsCeilingOfTruncatedQuotient ==
    SizedWithMipmapping
        => LET w == ev.in.width
               h == ev.in.height
               cw == ev.out.cache_size[1]
               ch == ev.out.cache_size[2]
           IN /\ w > h => /\ IsClampedPowerOfTwoCeiling(cw, w, 1)
                          /\ IsClampedPowerOfTwoCeiling(ch, (cw * h) \div w, 1)
              /\ w < h => /\ IsClampedPowerOfTwoCeiling(ch, h, 1)
                          /\ IsClampedPowerOfTwoCeiling(cw, (ch * w) \div h, 1)
              /\ w = h => /\ IsClampedPowerOfTwoCeiling(cw, w, 1)
                          /\ IsClampedPowerOfTwoCeiling(ch, h, 1)
              /\ (w = 1920 /\ h = 1080) => (cw = 2048 /\ ch = 2048)

\* Native 5 x 2 was sized: the height recomputed from the width is 4, where
\* rounding the height on its own gives 2.
C12_Witness ==
    /\ SizedWithMipmapping
    /\ ev.in.width = 5 /\ ev.in.height = 2
    /\ ev.out.cache_size = <<8, 4>>

\* C13: with mipmapping disabled the cache resolution, and the size at
\* which the capture surface is bound, is the native resolution, for every
\* positive native width and height.
C13_CacheSizeIsNativeWithoutMipmapping ==
    SizedWithoutMipmapping
        => /\ ev.out.cache_size = <<ev.in.width, ev.in.height>>
           /\ ev.out.captured
                => (cache_rt.w = ev.in.width /\ cache_rt.h = ev.in.height)

\* A native extent that is no power of two and above 16384 was captured
\* with mipmapping off.
C13_Witness ==
    /\ SizedWithoutMipmapping /\ ev.out.captured
    /\ ev.in.width = 40000 /\ ev.in.height = 1080
    /\ cache_rt.w = 40000 /\ cache_rt.h = 1080

----------------------------------------------------------------------------
(* Properties of the mipmap texture.                                       *)

\* C14: in every video_render call that runs the mipmap stage, the mipmap
\* texture is allocated exactly when none is held or the width or the height
\* of the held one differs from the cache resolution of the call; otherwise
\* the held texture is kept; after the stage the texture has the cache
\* resolution of the call.
C14_MipmapTextureReallocatedIffSizeDiffers ==
    [][(ev'.op = "video_render" /\ ev'.out.mipmap)
          => LET cs == ev'.out.cache_size
             IN /\ ev'.out.allocated
                     <=> \/ ~mipmap_texture.valid
                         \/ mipmap_texture.w # cs[1]
                         \/ mipmap_texture.h # cs[2]
                /\ ~ev'.out.allocated => mipmap_texture' = mipmap_texture
                /\ mipmap_texture'.valid
                /\ <<mipmap_texture'.w, mipmap_texture'.h>> = cs]_vars

\* The second mipmap pass of a tick found the texture at the cache
\* resolution and kept it.
C14_Witness ==
    /\ ev.op = "video_render" /\ ev.out.mipmap /\ ~ev.out.allocated
    /\ tickStats.mipmaps >= 2
    /\ <<mipmap_texture.w, mipmap_texture.h>> = ev.out.cache_size

\* C15: once a mipmap texture is held, one is held at every later point; a
\* call that allocates holds the new texture afterwards, and a call in which
\* the creation fails holds the texture it held before.
C15_MipmapTextureNeverLost ==
    [][/\ mipmap_texture.valid => mipmap_texture'.valid
       /\ (ev'.op = "video_render" /\ ev'.out.raised)
             => mipmap_texture' = mipmap_texture
       /\ (ev'.op = "video_render" /\ ev'.out.allocated)
             => /\ mipmap_texture'.valid
                /\ <<mipmap_texture'.w, mipmap_texture'.h>> = ev'.out.cache_size]_vars

\* The creation of a texture of another size failed and the texture held
\* before is still held.
C15_Witness ==
    /\ ev.op = "video_render" /\ ev.out.raised
    /\ mipmap_texture.valid
    /\ <<mipmap_texture.w, mipmap_texture.h>> # ev.out.cache_size

----------------------------------------------------------------------------
(* Properties of update.                                                   *)

\* C16: an update call with the settings of the update call right before it
\* leaves the parameters as that call left them, and every update call sets
\* _update_mesh, whatever the parameters and the flag were before.
C16_UpdateIdempotentAndAlwaysDirty ==
    [][ev'.op = "update"
          => /\ update_mesh'
             /\ (ev.op = "update" /\ ev.arg = ev'.arg) => params' = params
             /\ params' = ParseSettings(ev'.arg)]_vars

\* An update found _update_mesh cleared by a tick and the mesh built from
\* the parameters it parsed, and set the flag.
C16_Witness ==
    /\ ev.op = "update" /\ ~ev.out.was_dirty
    /\ mesh = BuildMesh(params, source_size[1], source_size[2])
    /\ update_mesh

----------------------------------------------------------------------------
(* Properties of the arithmetic.                                           *)

\* C17: no call divides by zero: a video_tick that rebuilds the mesh divides
\* by the sampled height with 0 replaced by 1 (and builds the mesh from the
\* extent with 0 replaced by 1), and a video_render call divides only when
\* its entry guard found width and height non-zero.
C17_NoDivisionByZero ==
    /\ 0 \notin ev.out.divisors
    /\ (ev.op = "video_tick" /\ ev.out.rebuilt)
          => /\ ev.out.divisors = {IF ev.in.height = 0 THEN 1 ELSE ev.in.height}
             /\ mesh = BuildMesh(params, IF ev.in.width = 0 THEN 1 ELSE ev.in.width,
                                  IF ev.in.height = 0 THEN 1 ELSE ev.in.height)
    /\ (ev.op = "video_render" /\ ev.out.divisors # {}) => GuardPassed(ev.in)

\* A tick sampled the height 0 in perspective mode and rebuilt the mesh.
C17_Witness ==
    /\ ev.op = "video_tick" /\ ev.out.rebuilt
    /\ ev.in.target /\ ev.in.height = 0
    /\ ~params.camera_orthographic
    /\ ev.out.divisors = {1}

----------------------------------------------------------------------------
(* Properties of the mesh.                                                 *)

\* The last call was a video_tick that rebuilt the mesh.
MeshRebuilt == ev.op = "video_tick" /\ ev.out.rebuilt

\* k * r for an integer k.
RatTimes(k, r) == Rat(k * r.n, r.d)

\* p_x as the mesh shows it: half the distance in x from vertex 0 to vertex 1.
HalfExtentX == RatMul(Rat(1, 2), RatSub(mesh[2].position[1], mesh[1].position[1]))

\* C18: with the orthographic camera the mesh built by video_tick is the
\* same for every source extent (the mesh for 1920 x 1080 and the mesh for
\* 640 x 480), its half-extent p_x being 1 * scale.x; with the perspective
\* camera p_x is (width / height) * scale.x.
C18_OrthographicMeshIgnoresExtent ==
    MeshRebuilt
        => /\ params.camera_orthographic
                => /\ HalfExtentX = params.scale[1]
                   /\ mesh = BuildMesh(params, 1920, 1080)
                   /\ mesh = BuildMesh(params, 640, 480)
           /\ ~params.camera_orthographic
                => HalfExtentX = RatMul(Rat(ev.in.width, ev.in.height), params.scale[1])

\* The mesh was rebuilt with the orthographic camera, scale.x = 50 % and a
\* source of 1920 x 1080.
C18_Witness ==
    /\ MeshRebuilt
    /\ params.camera_orthographic
    /\ ev.in.width = 1920 /\ ev.in.height = 1080
    /\ params.scale[1] = Rat(1, 2)
    /\ HalfExtentX = Rat(1, 2)

\* The axes in the order the name of a rotation order gives them.
OrderAxes ==
    << <<"X", "Y", "Z">>, <<"X", "Z", "Y">>, <<"Y", "X", "Z">>,
       <<"Y", "Z", "X">>, <<"Z", "X", "Y">>, <<"Z", "Y", "X">> >>

AxisAngle(axis) ==
    CASE axis = "X" -> params.rotation[1]
      [] axis = "Y" -> params.rotation[2]
      [] OTHER -> params.rotation[3]

\* C19: for each rotation order 0..5 the matrix of the mesh is made of the
\* three rotations in the order the enum value names (0 = XYZ, 1 = XZY,
\* 2 = YXZ, 3 = YZX, 4 = ZXY, 5 = ZYX), each axis once and with its own
\* angle, followed by the translation by the position.
C19_RotationsInEnumOrderThenTranslation ==
    (MeshRebuilt /\ params.rotation_order \in 0..5)
        => \A v \in 1..4 :
              LET m == mesh[v].transform
                  axes == OrderAxes[params.rotation_order + 1]
              IN /\ Len(m) = 4
                 /\ \A i \in 1..3 : m[i] = <<axes[i], AxisAngle(axes[i])>>
                 /\ {m[i][1] : i \in 1..3} = {"X", "Y", "Z"}
                 /\ m[4] = <<"T", params.position>>

\* The mesh was rebuilt with the order 1 (XZY) and the angles 30, 60 and 90
\* degrees: X by pi / 6, then Z by pi / 2, then Y by pi / 3.
C19_Witness ==
    /\ MeshRebuilt
    /\ params.rotation_order = 1
    /\ mesh[1].transform[1] = <<"X", Rat(1, 6)>>
    /\ mesh[1].transform[2] = <<"Z", Rat(1, 2)>>
    /\ mesh[1].transform[3] = <<"Y", Rat(1, 3)>>

\* The UV coordinates of the vertices 0..3.
CornerUV == << <<0, 0>>, <<1, 0>>, <<0, 1>>, <<1, 1>> >>

\* C20: the corner of vertex i before rotation and translation, with UV
\* (u, v) = (0,0), (1,0), (0,1), (1,1), is
\* ((2u - 1) p_x + (1 - 2v) shear.x, (2v - 1) p_y + (2u - 1) shear.y, 0)
\* with p_x = aspect * scale.x and p_y = scale.y, and its colour is opaque
\* white; with the default settings (position and rotation 0, scale 100 %,
\* shear 0, orthographic) and a source of 800 x 600 the corners are
\* (-1,-1,0), (1,-1,0), (-1,1,0), (1,1,0).
C20_CornersBeforeTransform ==
    MeshRebuilt
        => LET aspect == IF params.camera_orthographic THEN RatOne
                         ELSE Rat(ev.in.width, ev.in.height)
               p_x == RatMul(aspect, params.scale[1])
               p_y == params.scale[2]
           IN /\ \A i \in 1..4 :
                    LET u == CornerUV[i][1]
                        v == CornerUV[i][2]
                    IN /\ mesh[i].uv = <<u, v>>
                       /\ mesh[i].color = "FFFFFFFF"
                       /\ mesh[i].position =
                             << RatAdd(RatTimes(2 * u - 1, p_x),
                                       RatTimes(1 - 2 * v, params.shear[1])),
                                RatAdd(RatTimes(2 * v - 1, p_y),
                                       RatTimes(2 * u - 1, params.shear[2])),
                                RatZero >>
              /\ (params = ParseSettings(EmptySettings)
                     /\ ev.in.width = 800 /\ ev.in.height = 600)
                    => /\ mesh[1].position = <<Rat(-1, 1), Rat(-1, 1), RatZero>>
                       /\ mesh[2].position = <<Rat(1, 1), Rat(-1, 1), RatZero>>
                       /\ mesh[3].position = <<Rat(-1, 1), Rat(1, 1), RatZero>>
                       /\ mesh[4].position = <<Rat(1, 1), Rat(1, 1), RatZero>>

\* The mesh was rebuilt with the default settings and a source of 800 x 600.
C20_Witness ==
    /\ MeshRebuilt
    /\ params = ParseSettings(EmptySettings)
    /\ ev.in.width = 800 /\ ev.in.height = 600
    /\ mesh[1].position = <<Rat(-1, 1), Rat(-1, 1), RatZero>>
    /\ mesh[4].position = <<Rat(1, 1), Rat(1, 1), RatZero>>

----------------------------------------------------------------------------
(* Properties of the order of the passes.                                  *)

\* C21: a video_render call that reaches the composite runs its passes in
\* the order capture (left out when the capture of this tick is reused),
\* mipmap build, transform, composite; it runs the mipmap build exactly when
\* mipmapping is enabled, and the transform pass samples the mipmap texture
\* when mipmapping is enabled and the capture texture when it is not.
C21_PassesInOrder ==
    [][(ev'.op = "video_render" /\ ev'.out.composite = 1)
          => LET o == ev'.out
             IN /\ o.stages =
                      (IF o.captured THEN <<"capture">> ELSE << >>)
                      \o (IF params.mipmap_enabled THEN <<"mipmap">> ELSE << >>)
                      \o <<"transform", "composite">>
                /\ ~o.captured => (cache_rendered /\ tickStats.captures = 1)
                /\ o.mipmap <=> params.mipmap_enabled
                /\ o.sampled = IF params.mipmap_enabled THEN "mipmap" ELSE "cache"]_vars

\* A call reused the capture of the tick, built the mipmaps, drew the mesh
\* with the mipmap texture and drew the composite.
C21_Witness ==
    /\ ev.op = "video_render" /\ ev.out.composite = 1
    /\ ev.out.stages = <<"mipmap", "transform", "composite">>
    /\ ev.out.sampled = "mipmap"
    /\ tickStats.captures = 1


\* C22: whenever a video_render call rebuilds the mipmaps, the capture
\* texture it reads and the mipmap texture it writes have the same width and
\* height, and both have the cache resolution computed in that call.
C22_MipmapRebuildSizesAgree ==
    (ev.op = "video_render" /\ ev.out.mipmap)
        => /\ ev.out.mip_src = ev.out.mip_dst
           /\ ev.out.mip_dst = ev.out.cache_size


----------------------------------------------------------------------------
(* Properties of the parameters a frame is drawn with.                     *)

\* C23: in every video_render call that draws the mesh, the camera mode that
\* selects the projection is the camera mode under which video_tick last
\* built the mesh that is drawn.
C23_ProjectionMatchesMeshCamera ==
    (ev.op = "video_render" /\ ev.out.transform /\ mesh_camera # "none")
        => ev.out.projection = mesh_camera


----------------------------------------------------------------------------
(* Properties of the cache resolution against the native resolution.       *)

\* C24: with mipmapping enabled and a native width and height in 1..16384,
\* the cache width is at least the native width and the cache height at
\* least the native height, the axis recomputed from the aspect ratio
\* included.
C24_CacheSizeAtLeastNative ==
    (/\ SizedWithMipmapping
     /\ ev.in.width \in 1..MaxTextureSize
     /\ ev.in.height \in 1..MaxTextureSize)
        => /\ ev.out.cache_size[1] >= ev.in.width
           /\ ev.out.cache_size[2] >= ev.in.height

\* 1920x1080 is captured at 2048x2048: the height is recomputed from 1152.
C24_Witness ==
    /\ SizedWithMipmapping /\ ev.out.captured
    /\ ev.in.width = 1920 /\ ev.in.height = 1080
    /\ ev.out.cache_size = <<2048, 2048>>
    /\ cache_rt.w = 2048 /\ cache_rt.h = 2048

====
